---- MODULE Spec2Model ----
(***************************************************************************)
(* Model of doxygen-rs: the lexer (src/src/lexer.rs) and the Markdown      *)
(* generator (src/src/generator.rs).                                       *)
(*                                                                         *)
(* Text is modelled as a sequence of characters.  A character is a string; *)
(* every character is one byte long in UTF-8 except "U+00E9" (the letter   *)
(* e-acute, two bytes); "U+0060" is the backquote, "U+1F44C" a glyph.      *)
(***************************************************************************)
EXTENDS Integers, Sequences, FiniteSets, TLC

VARIABLES
    \* generator::rustdoc
    consumed,       \* the items of `parsed` the for loop has taken so far
    result,         \* the output String built so far
    gen_state,      \* GenState
    group_started,  \* bool
    str,            \* the value of the match expression of the last item
    outcome,        \* "running", "ok" (returned Ok(result)) or "panic"
    \* lexer::lex
    input,          \* the input String
    remains,        \* the unread rest of the input
    tokens,         \* `result` of lex: the Vec<LexItem> built so far
    lstatus         \* "idle", "running", "done" (returned) or "panic"

vars == <<consumed, result, gen_state, group_started, str, outcome,
          input, remains, tokens, lstatus>>

genVars == <<consumed, result, gen_state, group_started, str, outcome>>
lexVars == <<input, remains, tokens, lstatus>>

----------------------------------------------------------------------------
(* Bounds *)

MaxItems == 3
MaxChunks == 4

----------------------------------------------------------------------------
(* Text helpers *)

\* the backquote character (one byte)
BT == "U+0060"

Last(s) == s[Len(s)]

IsPrefix(p, s) == Len(p) <= Len(s) /\ SubSeq(s, 1, Len(p)) = p

Contains(s, p) ==
    \E i \in 0..(Len(s) - Len(p)) : SubSeq(s, i + 1, i + Len(p)) = p

\* str::replacen("*", "", 1)
RECURSIVE replacen_star(_)
replacen_star(v) ==
    IF v = <<>> THEN <<>>
    ELSE IF Head(v) = "*" THEN Tail(v)
    ELSE <<Head(v)>> \o replacen_star(Tail(v))

\* str::replace(':', "")
RECURSIVE replace_colon(_)
replace_colon(w) ==
    IF w = <<>> THEN <<>>
    ELSE IF Head(w) = ":" THEN replace_colon(Tail(w))
    ELSE <<Head(w)>> \o replace_colon(Tail(w))

----------------------------------------------------------------------------
(* generator.rs *)

GenStateDefault ==
    [already_added_params  |-> FALSE,
     already_added_returns |-> FALSE,
     already_added_throws  |-> FALSE,
     already_added_pre     |-> FALSE,
     already_added_post    |-> FALSE,
     already_added_see     |-> FALSE]

\* emojis::EMOJIS, the shortcode table
EMOJIS == (<<"o", "k">> :> <<"U+1F44C">>)

HeadArguments     == <<"#"," ","A","r","g","u","m","e","n","t","s","\n","\n"," ">>
HeadSeeAlso       == <<"#"," ","S","e","e"," ","a","l","s","o","\n","\n"," ">>
HeadReturns       == <<"#"," ","R","e","t","u","r","n","s","\n","\n"," ">>
HeadThrows        == <<"#"," ","T","h","r","o","w","s","\n","\n"," ">>
HeadPrecondition  == <<"#"," ","P","r","e","c","o","n","d","i","t","i","o","n","\n","\n"," ">>
HeadPostcondition == <<"#"," ","P","o","s","t","c","o","n","d","i","t","i","o","n","\n","\n"," ">>

\* format!("* `{param}` -") and the two direction forms
FmtParam(param, meta) ==
    IF meta = <<>> THEN <<"*"," ",BT>> \o param \o <<BT," ","-">>
    ELSE IF Len(meta) >= 2
    THEN <<"*"," ",BT>> \o param
         \o <<BT," ","(","d","i","r","e","c","t","i","o","n"," ">>
         \o meta[1] \o <<",", " ">> \o meta[2] \o <<")"," ","-">>
    ELSE <<"*"," ",BT>> \o param
         \o <<BT," ","(","d","i","r","e","c","t","i","o","n"," ">>
         \o meta[1] \o <<")"," ","-">>

GenOk(s, st) == [panicked |-> FALSE, str |-> s, new_state |-> st]
GenPanic == [panicked |-> TRUE, str |-> <<>>, new_state |-> GenStateDefault]

generate_notation(tag, meta, params, gs) ==
    CASE tag = "param" ->
           GenOk((IF ~gs.already_added_params THEN HeadArguments ELSE <<>>)
                 \o (IF Len(params) > 0 THEN FmtParam(params[1], meta) ELSE <<>>),
                 [GenStateDefault EXCEPT !.already_added_params = TRUE])
      [] tag \in {"a", "e", "em"} ->
           IF Len(params) = 0 THEN GenPanic
           ELSE GenOk(<<"_">> \o params[1] \o <<"_">>, GenStateDefault)
      [] tag = "b" ->
           IF Len(params) = 0 THEN GenPanic
           ELSE GenOk(<<"*","*">> \o params[1] \o <<"*","*">>, GenStateDefault)
      [] tag \in {"c", "p"} ->
           IF Len(params) = 0 THEN GenPanic
           ELSE GenOk(<<BT>> \o params[1] \o <<BT>>, GenStateDefault)
      [] tag = "emoji" ->
           IF Len(params) = 0 THEN GenPanic
           ELSE IF replace_colon(params[1]) \notin DOMAIN EMOJIS THEN GenPanic
           ELSE GenOk(EMOJIS[replace_colon(params[1])], GenStateDefault)
      [] tag \in {"sa", "see"} ->
           GenOk((IF ~gs.already_added_see THEN HeadSeeAlso ELSE <<>>)
                 \o (IF Len(params) > 0
                     THEN <<"[",BT>> \o params[1] \o <<BT,"]">> ELSE <<>>),
                 IF ~gs.already_added_see
                 THEN [GenStateDefault EXCEPT !.already_added_see = TRUE]
                 ELSE GenStateDefault)
      [] tag = "retval" ->
           IF Len(params) = 0 THEN GenPanic
           ELSE GenOk((IF ~gs.already_added_returns THEN HeadReturns ELSE <<>>)
                      \o <<"*"," ",BT>> \o params[1] \o <<BT," ","-">>,
                      [GenStateDefault EXCEPT !.already_added_returns = TRUE])
      [] tag \in {"returns", "return", "result"} ->
           GenOk(IF ~gs.already_added_returns THEN HeadReturns ELSE <<>>,
                 [GenStateDefault EXCEPT !.already_added_returns = TRUE])
      [] tag \in {"throw", "throws", "exception"} ->
           IF Len(params) = 0 THEN GenPanic
           ELSE GenOk((IF ~gs.already_added_throws THEN HeadThrows ELSE <<>>)
                      \o <<"*"," ","[",BT>> \o params[1] \o <<BT,"]"," ","-">>,
                      [GenStateDefault EXCEPT !.already_added_throws = TRUE])
      [] tag = "note" ->
           GenOk(<<">"," ","*","*","N","o","t","e",":","*","*"," ">>, GenStateDefault)
      [] tag = "since" ->
           GenOk(<<">"," ","A","v","a","i","l","a","b","l","e"," ",
                   "s","i","n","c","e",":"," ">>, GenStateDefault)
      [] tag = "deprecated" ->
           GenOk(<<">"," ","*","*","D","e","p","r","e","c","a","t","e","d","*","*"," ">>,
                 GenStateDefault)
      [] tag \in {"remark", "remarks"} -> GenOk(<<">"," ">>, GenStateDefault)
      [] tag = "par" -> GenOk(<<"#"," ">>, GenStateDefault)
      [] tag = "pre" ->
           GenOk((IF ~gs.already_added_pre THEN HeadPrecondition ELSE <<>>)
                 \o (IF Len(params) > 0 THEN <<"*"," ">> \o params[1] ELSE <<>>),
                 [GenStateDefault EXCEPT !.already_added_pre = TRUE])
      [] tag = "post" ->
           GenOk((IF ~gs.already_added_post THEN HeadPostcondition ELSE <<>>)
                 \o (IF Len(params) > 0 THEN <<"*"," ">> \o params[1] ELSE <<>>),
                 [GenStateDefault EXCEPT !.already_added_post = TRUE])
      [] tag = "details" -> GenOk(<<"\n","\n"," ">>, GenStateDefault)
      [] tag \in {"brief", "short"} -> GenOk(<<>>, GenStateDefault)
      [] OTHER -> GenOk(<<>>, GenStateDefault)

\* MergeGenState with lines 42-44 setting the wrong field: a pre item sets
\* already_added_post
MergeGenState_PreSetsPost(gs, new) ==
    [already_added_params  |-> gs.already_added_params  \/ new.already_added_params,
     already_added_returns |-> gs.already_added_returns \/ new.already_added_returns,
     already_added_throws  |-> gs.already_added_throws  \/ new.already_added_throws,
     already_added_pre     |-> gs.already_added_pre,
     already_added_post    |-> gs.already_added_post
                               \/ new.already_added_post \/ new.already_added_pre,
     already_added_see     |-> gs.already_added_see]

\* MergeGenState without lines 34-36: already_added_returns is not copied
MergeGenState_DropReturns(gs, new) ==
    [already_added_params  |-> gs.already_added_params  \/ new.already_added_params,
     already_added_returns |-> gs.already_added_returns,
     already_added_throws  |-> gs.already_added_throws  \/ new.already_added_throws,
     already_added_pre     |-> gs.already_added_pre     \/ new.already_added_pre,
     already_added_post    |-> gs.already_added_post    \/ new.already_added_post,
     already_added_see     |-> gs.already_added_see]

\* rustdoc, lines 30-48: the flags of new_gen_state copied into gen_state
MergeGenState(gs, new) ==
    [already_added_params  |-> gs.already_added_params  \/ new.already_added_params,
     already_added_returns |-> gs.already_added_returns \/ new.already_added_returns,
     already_added_throws  |-> gs.already_added_throws  \/ new.already_added_throws,
     already_added_pre     |-> gs.already_added_pre     \/ new.already_added_pre,
     already_added_post    |-> gs.already_added_post    \/ new.already_added_post,
     already_added_see     |-> gs.already_added_see]


\* parser::GrammarItem
Notation(tag, meta, params) ==
    [kind |-> "Notation", tag |-> tag, meta |-> meta, params |-> params, text |-> <<>>]
Text(v) == [kind |-> "Text", tag |-> "", meta |-> <<>>, params |-> <<>>, text |-> v]
Url(u)  == [kind |-> "Url", tag |-> "", meta |-> <<>>, params |-> <<>>, text |-> u]
GroupStart == [kind |-> "GroupStart", tag |-> "", meta |-> <<>>, params |-> <<>>, text |-> <<>>]
GroupEnd   == [kind |-> "GroupEnd", tag |-> "", meta |-> <<>>, params |-> <<>>, text |-> <<>>]

\* The grammar items the generator is run on.
DirIn  == <<"i","n">>
DirOut == <<"o","u","t">>
NameX  == <<"x">>

NotationItems ==
    {Notation("param", m, <<NameX>>) : m \in {<<>>, <<DirIn>>, <<DirIn, DirOut>>}}
    \cup {Notation("param", <<>>, <<>>)}
    \cup {Notation(t, <<>>, ps) :
            t \in {"b", "c", "sa", "retval", "throw", "pre"}, ps \in {<<>>, <<NameX>>}}
    \cup {Notation(t, <<>>, <<NameX>>) : t \in {"a", "see", "throws", "post"}}
    \cup {Notation("emoji", <<>>, ps) :
            ps \in {<<>>, <<<<":","o","k",":">>>>, <<<<":","n","o",":">>>>}}
    \cup {Notation(t, <<>>, <<>>) :
            t \in {"returns", "return", "note", "par", "details", "brief", "nosuchtag"}}

TextItems == {Text(<<"*"," ","l">>), Text(<<"a","*","b","*">>), Text(<<" ","D">>)}

UrlItems == {Url(<<"h","t","t","p",":","/","/","u">>)}

\* rustdoc line 23-24: the state before the for loop
Init ==
    /\ consumed = <<>>
    /\ result = <<>>
    /\ gen_state = GenStateDefault
    /\ group_started = FALSE
    /\ str = <<>>
    /\ outcome = "running"
    /\ input = <<>>
    /\ remains = <<>>
    /\ tokens = <<>>
    /\ lstatus = "idle"

MoreItems == outcome = "running" /\ Len(consumed) < MaxItems

\* rustdoc lines 28-51: a Notation item
RenderNotation ==
    \E item \in NotationItems :
        /\ MoreItems
        /\ consumed' = Append(consumed, item)
        /\ LET r == generate_notation(item.tag, item.meta, item.params, gen_state) IN
             IF r.panicked
             THEN /\ outcome' = "panic"
                  /\ str' = <<>>
                  /\ UNCHANGED <<result, gen_state>>
             ELSE /\ str' = r.str
                  /\ result' = result \o r.str
                  /\ gen_state' = MergeGenState(gen_state, r.new_state)
                  /\ UNCHANGED outcome
        /\ UNCHANGED <<group_started, lexVars>>

\* rustdoc lines 52-56: the text of a Text item
TextOf(v, started) == IF started THEN replacen_star(v) ELSE v

RenderText ==
    \E item \in TextItems :
        /\ MoreItems
        /\ consumed' = Append(consumed, item)
        /\ str' = TextOf(item.text, group_started)
        /\ result' = result \o str'
        /\ UNCHANGED <<gen_state, group_started, outcome, lexVars>>

\* rustdoc lines 58-61.  The parser opens no group inside a group.
RenderGroupStart ==
    /\ MoreItems
    /\ ~group_started
    /\ consumed' = Append(consumed, GroupStart)
    /\ group_started' = TRUE
    /\ str' = <<"#", " ">>
    /\ result' = result \o str'
    /\ UNCHANGED <<gen_state, outcome, lexVars>>

\* rustdoc lines 62-65.  The parser closes only an open group.
RenderGroupEnd ==
    /\ MoreItems
    /\ group_started
    /\ consumed' = Append(consumed, GroupEnd)
    /\ group_started' = FALSE
    /\ str' = <<>>
    /\ UNCHANGED <<result, gen_state, outcome, lexVars>>

\* rustdoc line 66
RenderUrl ==
    \E item \in UrlItems :
        /\ MoreItems
        /\ consumed' = Append(consumed, item)
        /\ str' = <<"<">> \o item.text \o <<">">>
        /\ result' = result \o str'
        /\ UNCHANGED <<gen_state, group_started, outcome, lexVars>>

\* rustdoc line 70: the items are exhausted (every group closed), Ok(result)
Return ==
    /\ outcome = "running"
    /\ ~group_started
    /\ outcome' = "ok"
    /\ UNCHANGED <<consumed, result, gen_state, group_started, str, lexVars>>

Next ==
    \/ RenderNotation
    \/ RenderText
    \/ RenderGroupStart
    \/ RenderGroupEnd
    \/ RenderUrl
    \/ Return

Spec == Init /\ [][Next]_vars

----------------------------------------------------------------------------
(* lexer.rs *)

\* char::len_utf8
len_utf8(c) == IF c = "U+00E9" THEN 2 ELSE 1

\* str::len: the length of a string in bytes
RECURSIVE ByteLen(_)
ByteLen(s) == IF s = <<>> THEN 0 ELSE len_utf8(Head(s)) + ByteLen(Tail(s))

\* The number of characters of s that end at byte offset n, -1 when n is
\* inside a character or past the end (the slice &s[n..] or &s[..n] panics).
CharsBefore(s, n) ==
    LET K == {k \in 0..Len(s) : ByteLen(SubSeq(s, 1, k)) = n}
    IN  IF K = {} THEN -1 ELSE CHOOSE k \in K : TRUE

AsciiLetters ==
    {"a","b","c","d","e","f","g","h","i","j","k","l","m",
     "n","o","p","q","r","s","t","u","v","w","x","y","z",
     "A","B","C","D","E","F","G","H","I","J","K","L","M",
     "N","O","P","Q","R","S","T","U","V","W","X","Y","Z"}

Digits == {"0","1","2","3","4","5","6","7","8","9"}

\* char::is_alphanumeric
is_alphanumeric(c) == c \in AsciiLetters \cup Digits \cup {"U+00E9"}

\* the punctuation of consume_url_chars, line 96
UrlPunct == {":","/","-","_",",",".","#","%","?","[","]","@","!","$","&","'","*","+",";","="}

\* the number of ASCII letters of s from position j on
RECURSIVE LetterRun(_, _)
LetterRun(s, j) ==
    IF j <= Len(s) /\ s[j] \in AsciiLetters THEN 1 + LetterRun(s, j + 1) ELSE 0

\* the length of the match of (/?[a-zA-Z]+)> that starts at position i of s,
\* 0 when there is none
MatchAt(s, i) ==
    LET j == IF i <= Len(s) /\ s[i] = "/" THEN i + 1 ELSE i
        k == LetterRun(s, j)
    IN  IF k > 0 /\ j + k <= Len(s) /\ s[j + k] = ">" THEN j + k + 1 - i ELSE 0

\* Regex::captures, line 54-55: the leftmost match anywhere in s
captures(s) ==
    LET M == {i \in 1..Len(s) : MatchAt(s, i) > 0}
    IN  IF M = {} THEN [found |-> FALSE, len |-> 0, name |-> <<>>]
        ELSE LET i == CHOOSE x \in M : \A y \in M : x <= y
             IN  [found |-> TRUE,
                  len   |-> MatchAt(s, i),
                  name  |-> SubSeq(s, i, i + MatchAt(s, i) - 2)]

\* consume_url_chars: the index (counted in characters) of the first
\* character that is no URL character, or the byte length of chars
consume_url_chars(chars) ==
    LET Stop == {i \in 1..Len(chars) :
                    ~(is_alphanumeric(chars[i]) \/ chars[i] \in UrlPunct)}
    IN  IF Stop = {} THEN ByteLen(chars)
        ELSE (CHOOSE i \in Stop : \A j \in Stop : i <= j) - 1

starts_with(s, p) == Len(p) <= Len(s) /\ SubSeq(s, 1, Len(p)) = p

\* LexItem
At(v)    == [kind |-> "At", text |-> v]
Paren(c) == [kind |-> "Paren", text |-> <<c>>]
Word(v)  == [kind |-> "Word", text |-> v]
LexUrl(v) == [kind |-> "Url", text |-> v]
Space    == [kind |-> "Space", text |-> <<>>]
NewLine  == [kind |-> "NewLine", text |-> <<>>]

\* The inputs lex is run on: up to MaxChunks pieces, one after the other.
Chunks ==
    {<<"h","t","t","p",":","/","/">>, <<"<">>, <<"b","r">>, <<"a">>, <<">">>,
     <<"/">>, <<" ">>, <<"U+00E9">>, <<"\n">>, <<"@">>, <<"\\">>, <<"{">>}

RECURSIVE Inputs(_)
Inputs(n) ==
    IF n = 0 THEN {<<>>}
    ELSE {<<>>} \cup {c \o s : c \in Chunks, s \in Inputs(n - 1)}

\* lex lines 12-14
LexInit ==
    /\ input \in Inputs(MaxChunks)
    /\ remains = input
    /\ tokens = <<>>
    /\ lstatus = "running"
    /\ consumed = <<>>
    /\ result = <<>>
    /\ gen_state = GenStateDefault
    /\ group_started = FALSE
    /\ str = <<>>
    /\ outcome = "idle"

\* lex lines 16-19: the next character c; remains moves past it
Scanning(c) == lstatus = "running" /\ remains # <<>> /\ Head(remains) = c

\* lines 21-23
LexAt ==
    /\ Scanning("@")
    /\ tokens' = Append(tokens, At(<<"@">>))
    /\ remains' = Tail(remains)
    /\ UNCHANGED <<input, lstatus, genVars>>

\* lines 24-39
LexBackslash ==
    /\ Scanning("\\")
    /\ tokens' = IF tokens # <<>> /\ Last(tokens) = At(<<"\\">>)
                 THEN [tokens EXCEPT ![Len(tokens)] = At(<<"\\", "\\">>)]
                 ELSE Append(tokens, At(<<"\\">>))
    /\ remains' = Tail(remains)
    /\ UNCHANGED <<input, lstatus, genVars>>

\* lines 40-42
LexParen ==
    \E c \in {"{", "}"} :
        /\ Scanning(c)
        /\ tokens' = Append(tokens, Paren(c))
        /\ remains' = Tail(remains)
        /\ UNCHANGED <<input, lstatus, genVars>>

\* lines 43-49
LexSpace ==
    /\ Scanning(" ")
    /\ tokens' = IF tokens # <<>> /\ Last(tokens) # Space
                 THEN Append(tokens, Space)
                 ELSE tokens
    /\ remains' = Tail(remains)
    /\ UNCHANGED <<input, lstatus, genVars>>

\* lines 50-52
LexNewLine ==
    /\ Scanning("\n")
    /\ tokens' = Append(tokens, NewLine)
    /\ remains' = Tail(remains)
    /\ UNCHANGED <<input, lstatus, genVars>>

\* lines 57-65: the word of a matched tag
TagWord(s) ==
    IF s = <<"b","r">> THEN <<"<","b","r",">">>
    ELSE <<"\\","<">> \o s \o <<"\\",">">>

\* line 66: the byte offset at which scanning resumes after a match
ResumeAt(m) == m.len - 1

\* lines 53-70
LexLt ==
    /\ Scanning("<")
    /\ LET rest == Tail(remains)
           m == captures(rest)
       IN  IF m.found
           THEN /\ tokens' = Append(tokens, Word(TagWord(m.name)))
                /\ LET k == CharsBefore(rest, ResumeAt(m)) IN
                     IF k < 0
                     THEN lstatus' = "panic" /\ remains' = rest
                     ELSE remains' = SubSeq(rest, k + 1, Len(rest))
                          /\ UNCHANGED lstatus
           ELSE /\ tokens' = Append(tokens, Word(<<"<">>))
                /\ remains' = rest
                /\ UNCHANGED lstatus
    /\ UNCHANGED <<input, genVars>>

IsUrlStart(s) ==
    /\ s # <<>>
    /\ Head(s) = "h"
    /\ \/ starts_with(Tail(s), <<"t","t","p",":","/","/">>)
       \/ starts_with(Tail(s), <<"t","t","p","s",":","/","/">>)

\* lines 71-77
LexUrlStep ==
    /\ lstatus = "running"
    /\ IsUrlStart(remains)
    /\ LET rest == Tail(remains)
           k == CharsBefore(rest, consume_url_chars(rest))
       IN  IF k < 0
           THEN lstatus' = "panic" /\ UNCHANGED <<remains, tokens>>
           ELSE /\ tokens' = Append(tokens, LexUrl(<<"h">> \o SubSeq(rest, 1, k)))
                /\ remains' = SubSeq(rest, k + 1, Len(rest))
                /\ UNCHANGED lstatus
    /\ UNCHANGED <<input, genVars>>

\* lines 78-87
LexOther ==
    /\ lstatus = "running"
    /\ remains # <<>>
    /\ Head(remains) \notin {"@", "\\", "{", "}", " ", "\n", "<"}
    /\ ~IsUrlStart(remains)
    /\ tokens' = IF tokens # <<>> /\ Last(tokens).kind = "Word"
                 THEN [tokens EXCEPT ![Len(tokens)] =
                          Word(Last(tokens).text \o <<Head(remains)>>)]
                 ELSE Append(tokens, Word(<<Head(remains)>>))
    /\ remains' = Tail(remains)
    /\ UNCHANGED <<input, lstatus, genVars>>

\* lines 16-18 and 91: no character is left, result is returned
LexReturn ==
    /\ lstatus = "running"
    /\ remains = <<>>
    /\ lstatus' = "done"
    /\ UNCHANGED <<input, remains, tokens, genVars>>

LexNext ==
    \/ LexAt
    \/ LexBackslash
    \/ LexParen
    \/ LexSpace
    \/ LexNewLine
    \/ LexLt
    \/ LexUrlStep
    \/ LexOther
    \/ LexReturn

LexSpec == LexInit /\ [][LexNext]_vars

----------------------------------------------------------------------------
(* Properties of the generator *)

\* The section family of a tag, "" when it has none.
Family(tag) ==
    CASE tag = "param" -> "Arguments"
      [] tag \in {"retval", "returns", "return", "result"} -> "Returns"
      [] tag \in {"throw", "throws", "exception"} -> "Throws"
      [] tag \in {"sa", "see"} -> "SeeAlso"
      [] tag = "pre" -> "Precondition"
      [] tag = "post" -> "Postcondition"
      [] OTHER -> ""

\* The heading line of a family.
Title(f) ==
    CASE f = "Arguments" -> <<"#"," ","A","r","g","u","m","e","n","t","s">>
      [] f = "Returns" -> <<"#"," ","R","e","t","u","r","n","s">>
      [] f = "Throws" -> <<"#"," ","T","h","r","o","w","s">>
      [] f = "SeeAlso" -> <<"#"," ","S","e","e"," ","a","l","s","o">>
      [] f = "Precondition" -> <<"#"," ","P","r","e","c","o","n","d","i","t","i","o","n">>
      [] f = "Postcondition" -> <<"#"," ","P","o","s","t","c","o","n","d","i","t","i","o","n">>

\* The flag of a family in a GenState.
Flag(gs, f) ==
    CASE f = "Arguments" -> gs.already_added_params
      [] f = "Returns" -> gs.already_added_returns
      [] f = "Throws" -> gs.already_added_throws
      [] f = "SeeAlso" -> gs.already_added_see
      [] f = "Precondition" -> gs.already_added_pre
      [] f = "Postcondition" -> gs.already_added_post

Families == {"Arguments", "Returns", "Throws", "SeeAlso", "Precondition", "Postcondition"}

\* items[1..n] holds a Notation of family f
HasFamily(items, n, f) ==
    \E i \in 1..n : items[i].kind = "Notation" /\ Family(items[i].tag) = f

IsSuffix(p, s) == Len(p) <= Len(s) /\ SubSeq(s, Len(s) - Len(p) + 1, Len(s)) = p

\* The last item was rendered (rustdoc did not panic on it).
Rendered == consumed # <<>> /\ outcome # "panic"

\* The entry of an item: what it emits when its heading is already out.
AllAdded == [f \in DOMAIN GenStateDefault |-> TRUE]
EntryOf(item) == generate_notation(item.tag, item.meta, item.params, AllAdded).str

\* C1: of two or more Notation items of one section family, the first one
\* emits the family's heading and every later one emits its entry only, so
\* the heading is in the output exactly once.
C1_HeadingOnce ==
    (Rendered /\ Last(consumed).kind = "Notation" /\ Family(Last(consumed).tag) # "")
    => LET item == Last(consumed)
           f == Family(item.tag)
           earlier == HasFamily(consumed, Len(consumed) - 1, f)
       IN  /\ Contains(str, Title(f)) <=> ~earlier
           /\ earlier => str = EntryOf(item)

\* Tags whose rendering needs a parameter.
NeedsParam == {"a", "e", "em", "b", "c", "p", "emoji", "retval",
               "throw", "throws", "exception"}

MissingPart(item) ==
    /\ item.kind = "Notation"
    /\ \/ item.tag \in NeedsParam /\ item.params = <<>>
       \/ /\ item.tag = "emoji"
          /\ item.params # <<>>
          /\ replace_colon(item.params[1]) \notin DOMAIN EMOJIS

\* C3: a Notation that lacks its required parameter, or an emoji whose
\* shortcode is not in the symbol table, makes rustdoc return Err.
C3_MissingPartIsErr ==
    (consumed # <<>> /\ MissingPart(Last(consumed))) => outcome = "err"

\* Index of the last item of a kind among items[1..n], 0 when there is none.
LastOf(items, n, kind) ==
    LET S == {i \in 1..n : items[i].kind = kind}
    IN  IF S = {} THEN 0 ELSE CHOOSE i \in S : \A j \in S : j <= i

\* C4: in an open group only the first Text item after the GroupStart loses
\* its first '*'; every later Text item of the group is emitted unmodified.
C4_StripOnce ==
    LET n == Len(consumed) - 1
        open == LastOf(consumed, n, "GroupStart")
    IN  (Rendered /\ Last(consumed).kind = "Text"
         /\ open > LastOf(consumed, n, "GroupEnd"))
        => str = IF LastOf(consumed, n, "Text") > open
                 THEN Last(consumed).text
                 ELSE replacen_star(Last(consumed).text)

\* C5: a document that starts with '@param[in] N' begins
\* '# Arguments\n\n* `N` (direction in) -', and one that starts with
\* '@param N' begins '# Arguments\n\n* `N` -': the bullet follows the blank
\* line directly.
C5_FirstParam ==
    (Rendered /\ consumed[1].kind = "Notation" /\ consumed[1].tag = "param"
     /\ consumed[1].params # <<>> /\ consumed[1].meta \in {<<>>, <<DirIn>>})
    => IsPrefix(Title("Arguments") \o <<"\n", "\n", "*", " ", BT>>
                  \o consumed[1].params[1] \o <<BT, " ">>
                  \o (IF consumed[1].meta = <<>> THEN <<>>
                      ELSE <<"(","d","i","r","e","c","t","i","o","n"," ","i","n",")"," ">>)
                  \o <<"-">>,
                result)

\* C6: retval and returns/return/result share the '# Returns' heading: of
\* the items of these four tags only the first emits it, and every retval
\* item emits its entry '* `name` -'.
C6_ReturnsShared ==
    (Rendered /\ Last(consumed).kind = "Notation"
     /\ Last(consumed).tag \in {"retval", "returns", "return", "result"})
    => LET item == Last(consumed) IN
       /\ Contains(str, Title("Returns"))
            <=> ~HasFamily(consumed, Len(consumed) - 1, "Returns")
       /\ item.tag = "retval"
            => IsSuffix(<<"*", " ", BT>> \o item.params[1] \o <<BT, " ", "-">>, str)
       /\ item.tag # "retval" /\ HasFamily(consumed, Len(consumed) - 1, "Returns")
            => str = <<>>

\* A retval after a returns: the retval emits its entry without the heading.
C6_Witness ==
    /\ Len(consumed) = 2
    /\ outcome = "ok"
    /\ consumed[1].tag = "returns"
    /\ consumed[2].tag = "retval"
    /\ str = <<"*", " ", BT>> \o NameX \o <<BT, " ", "-">>
    /\ result = <<"#"," ","R","e","t","u","r","n","s","\n","\n"," ">> \o str

\* C10: each flag of gen_state is true exactly when an item of its family
\* has been processed.
C10_FlagsTrackFamilies ==
    Rendered \/ consumed = <<>>
    => \A f \in Families : Flag(gen_state, f) <=> HasFamily(consumed, Len(consumed), f)

\* C10, second half: a flag that is true stays true.
C10_FlagsNeverReset ==
    [][\A f \in Families : Flag(gen_state, f) => Flag(gen_state', f)]_vars

----------------------------------------------------------------------------
(* Properties of the lexer *)

\* C2: lex never aborts: every slice it takes of the remaining input is on
\* character boundaries.
C2_LexNeverAborts == lstatus # "panic"

\* The text of a token: a Space is one space, a NewLine one newline.
TokenText(tok) ==
    CASE tok.kind = "Space" -> <<" ">>
      [] tok.kind = "NewLine" -> <<"\n">>
      [] OTHER -> tok.text

RECURSIVE TokensText(_)
TokensText(toks) ==
    IF toks = <<>> THEN <<>> ELSE TokenText(Head(toks)) \o TokensText(Tail(toks))

\* s with every run of spaces replaced by one space
RECURSIVE CollapseSpaces(_)
CollapseSpaces(s) ==
    IF s = <<>> THEN <<>>
    ELSE IF Head(s) = " " /\ Len(s) >= 2 /\ s[2] = " " THEN CollapseSpaces(Tail(s))
    ELSE <<Head(s)>> \o CollapseSpaces(Tail(s))

HasUrl(s) == \E i \in 1..Len(s) : IsUrlStart(SubSeq(s, i, Len(s)))
HasLt(s) == \E i \in 1..Len(s) : s[i] = "<"

\* C7: for an input with no '<' and no URL, the texts of the tokens of
\* lex(input), one after the other, are the input with every run of spaces
\* replaced by one space (a run at the very start included).
C7_TokensReproduceInput ==
    (lstatus = "done" /\ ~HasLt(input) /\ ~HasUrl(input))
    => TokensText(tokens) = CollapseSpaces(input)

\* C8: at a '<' directly followed by an optional '/', letters and '>', lex
\* emits one Word for the tag and goes on with the character after that '>'.
C8_ResumeAfterTag ==
    [][(lstatus = "running" /\ remains # <<>> /\ Head(remains) = "<"
        /\ MatchAt(Tail(remains), 1) > 0)
       => LET rest == Tail(remains)
              n == MatchAt(rest, 1)
              name == SubSeq(rest, 1, n - 1)
          IN  /\ lstatus' = "running"
              /\ tokens' = Append(tokens,
                     Word(IF name = <<"b","r">> THEN <<"<","b","r",">">>
                          ELSE <<"\\","<">> \o name \o <<"\\",">">>))
              /\ remains' = SubSeq(rest, n + 1, Len(rest))]_vars

\* C9: at a '<' not directly followed by that pattern, lex emits the Word
\* '<' and goes on with the very next character.
C9_LiteralLt ==
    [][(lstatus = "running" /\ remains # <<>> /\ Head(remains) = "<"
        /\ MatchAt(Tail(remains), 1) = 0)
       => /\ lstatus' = "running"
          /\ tokens' = Append(tokens, Word(<<"<">>))
          /\ remains' = Tail(remains)]_vars

----------------------------------------------------------------------------
(* Frame of rustdoc's per-item step *)

\* The step takes an item of `parsed`.
TakesItem == Len(consumed') = Len(consumed) + 1 /\ SubSeq(consumed', 1, Len(consumed)) = consumed

\* C11: a Text, Url, GroupStart or GroupEnd item leaves the six flags of
\* gen_state as they are; a Notation item leaves group_started as it is and
\* changes no flag but the one of its own family; group_started is set by
\* GroupStart only and cleared by GroupEnd only; GroupEnd appends nothing to
\* the output.
C11_Frame ==
    [][IF TakesItem
       THEN LET item == Last(consumed') IN
            /\ item.kind \in {"Text", "Url", "GroupStart", "GroupEnd"}
                 => gen_state' = gen_state
            /\ item.kind = "Notation"
                 => /\ group_started' = group_started
                    /\ \A f \in Families \ {Family(item.tag)} :
                          Flag(gen_state', f) = Flag(gen_state, f)
            /\ (~group_started /\ group_started') => item.kind = "GroupStart"
            /\ (group_started /\ ~group_started') => item.kind = "GroupEnd"
            /\ item.kind = "GroupStart" => group_started'
            /\ item.kind = "GroupEnd" => ~group_started' /\ result' = result
       ELSE gen_state' = gen_state /\ group_started' = group_started]_vars

\* A group that holds a pre item has been rendered: the group is closed
\* again, only the Precondition flag is set, and the GroupEnd added nothing.
C11_Witness ==
    /\ Len(consumed) = 3
    /\ consumed[1] = GroupStart
    /\ consumed[2].kind = "Notation" /\ consumed[2].tag = "pre"
    /\ consumed[3] = GroupEnd
    /\ ~group_started
    /\ gen_state = [GenStateDefault EXCEPT !.already_added_pre = TRUE]
    /\ result = <<"#", " ">> \o HeadPrecondition \o <<"*", " ">> \o NameX

====
